---- MODULE Spec2Model ----
(***************************************************************************)
(* Model of the digit tree of src/digittree/__init__.py: a radix-10 trie   *)
(* of decimal identifiers with a usage accounting pass (populate_used) and *)
(* a lazy enumeration of the free identifiers (available, _rec_availabe).  *)
(*                                                                         *)
(* Python strings are sequences of one-character strings, so that          *)
(* int(node[i]) and f'{prefix}{digit}' are conversions between characters  *)
(* and numbers.  A DigitTree object is named by the path of dict keys that *)
(* leads to it from the root; the variable tree maps each such path to the *)
(* fields of the object.  The childs dict of an object is kept as the      *)
(* sequence of its keys in insertion order, which is the order in which    *)
(* Python iterates a dict.                                                 *)
(***************************************************************************)
EXTENDS Integers, Sequences, FiniteSets, TLC

VARIABLES
    tree,       \* path -> [prefix, childs, terminal, used, covers]
    inserted,   \* identifiers the caller passed to add_node on the root
    npop,       \* number of populate_used calls made by the caller
    lastErr,    \* exception raised by the caller's last call, or "none"
    gen,        \* the generator returned by the last available() call
    ngen,       \* number of available() calls
    seeded,     \* seeds that available() inserted into an empty tree
    out,        \* values the current generator has yielded, in order
    prev,       \* values of the generator the consumer stopped pulling from
    wa,         \* the WebexActivator, its inbox monitor, queue and pool
    ru          \* the callers of RandomUserApi.set_uid and their users

vars == <<tree, inserted, npop, lastErr, gen, ngen, seeded, out, prev, wa, ru>>

----------------------------------------------------------------------------
(* Bounds of the model *)

\* distinct identifiers the caller inserts
MaxIds == 4
\* populate_used calls made directly by the caller
MaxPopulate == 1
\* available() calls
MaxGens == 2
\* values a consumer pulls from one generator
MaxPulls == 900

----------------------------------------------------------------------------
(* Strings and numbers *)

None == <<"None">>

DigitChars == <<"0", "1", "2", "3", "4", "5", "6", "7", "8", "9">>

\* range(10)
Radix == 10

\* mutant of int: a character that is no digit counts as 0
int_lenient(c) ==
    IF \E d \in DOMAIN DigitChars : DigitChars[d] = c
    THEN (CHOOSE d \in DOMAIN DigitChars : DigitChars[d] = c) - 1
    ELSE 0

\* int(c) of a one-character string; -1 stands for ValueError
int(c) ==
    IF \E d \in DOMAIN DigitChars : DigitChars[d] = c
    THEN (CHOOSE d \in DOMAIN DigitChars : DigitChars[d] = c) - 1
    ELSE -1

\* str(n) of a natural number
RECURSIVE str(_)
str(n) ==
    IF n < 10 THEN <<DigitChars[n + 1]>>
    ELSE Append(str(n \div 10), DigitChars[(n % 10) + 1])

\* 10 ** e; a negative exponent gives a float below 1, kept as the exponent
Pow10(e) == IF e >= 0 THEN 10 ^ e ELSE e

\* mutant of ZeroPad: every index is formatted as index 0
ZeroPad_first(i, length) == [k \in 1..length |-> "0"]

\* f'{i:0{length}}': str(i) filled with zeros on the left up to width length
ZeroPad(i, length) ==
    LET s == str(i) IN
    IF Len(s) >= length THEN s
    ELSE [k \in 1..(length - Len(s)) |-> "0"] \o s

RECURSIVE common_prefix(_, _)
common_prefix(s1, s2) ==
    IF s1 = <<>> \/ s2 = <<>> \/ Head(s1) # Head(s2) THEN <<>>
    ELSE <<Head(s1)>> \o common_prefix(Tail(s1), Tail(s2))

----------------------------------------------------------------------------
(* The tree *)

Root == <<>>

\* mutant of NewNode: a new node counts itself as used
NewNode_used(p) ==
    [prefix |-> p, childs |-> <<>>, terminal |-> FALSE, used |-> 1, covers |-> 0]

\* DigitTree(prefix=p): the dataclass defaults
NewNode(p) ==
    [prefix |-> p, childs |-> <<>>, terminal |-> FALSE, used |-> 0, covers |-> 0]

\* DigitTree()
EmptyTree == [p \in {Root} |-> NewNode(<<>>)]

Keys(t, self) == {t[self].childs[i] : i \in 1..Len(t[self].childs)}

Child(self, key) == Append(self, key)

\* mutant of set_terminal: the node is not marked
set_terminal_skipped(t, self) == t

\* mutant of set_terminal: the flag of a terminal node is taken back
set_terminal_toggled(t, self) == [t EXCEPT ![self].terminal = ~@]

\* self.terminal = True
set_terminal(t, self) == [t EXCEPT ![self].terminal = TRUE]

\* self.childs[next_digit] = self.__class__(prefix=f'{self.prefix}{next_digit}')
new_child(t, self, next_digit) ==
    [q \in DOMAIN t \cup {Child(self, next_digit)} |->
        IF q = Child(self, next_digit)
        THEN NewNode(t[self].prefix \o str(next_digit))
        ELSE IF q = self
        THEN [t[self] EXCEPT !.childs = Append(@, next_digit)]
        ELSE t[q]]

\* mutant of sub_tree: a new child is made even when there is one
sub_tree_renewed(t, self, next_digit) ==
    IF next_digit \in Keys(t, self)
    THEN [t EXCEPT ![Child(self, next_digit)] = NewNode(t[self].prefix \o str(next_digit))]
    ELSE new_child(t, self, next_digit)

\* sub_tree = self.childs.get(next_digit), made when it is None
sub_tree(t, self, next_digit) ==
    IF next_digit \in Keys(t, self) THEN t
    ELSE new_child(t, self, next_digit)

\* add_node returns the tree it leaves and the exception it raised, if any.
\* An assert statement that fails raises AssertionError (asserts are on).
RECURSIVE add_node(_, _, _)
add_node(t, self, node) ==
    LET common == common_prefix(t[self].prefix, node) IN
    IF common = node
    THEN [tree |-> set_terminal(t, self), err |-> "none"]
    ELSE IF ~(Len(node) > Len(t[self].prefix))
    THEN [tree |-> t, err |-> "AssertionError"]
    ELSE IF int(node[Len(common) + 1]) = -1
    THEN [tree |-> t, err |-> "ValueError"]
    ELSE
        LET next_digit == int(node[Len(common) + 1]) IN
        add_node(sub_tree(t, self, next_digit), Child(self, next_digit), node)

\* from_list(nodes=nodes) on the tree t built so far; the first add_node that
\* raises ends the loop
RECURSIVE from_list(_, _)
from_list(t, nodes) ==
    IF nodes = <<>> THEN t
    ELSE LET r == add_node(t, Root, Head(nodes)) IN
         IF r.err # "none" THEN r.tree ELSE from_list(r.tree, Tail(nodes))

\* the predicates the callers pass to traverse, by the text of their lambda;
\* None is pred left out
Preds == { None, <<"terminal">>, <<"childs">>, <<"not childs">>, <<"len(childs) > 1">> }

\* pred(node), with always_true in the place of None
pred_holds(pred, t, self) ==
    CASE pred = None -> TRUE
      [] pred = <<"terminal">> -> t[self].terminal
      [] pred = <<"childs">> -> t[self].childs # <<>>
      [] pred = <<"not childs">> -> t[self].childs = <<>>
      [] pred = <<"len(childs) > 1">> -> Len(t[self].childs) > 1

\* mutant of sorted_keys: the keys are taken in the order of the dict
dict_keys(t, self) == t[self].childs

\* sorted(self.childs)
sorted_keys(t, self) ==
    LET ks == t[self].childs
        n == Len(ks)
        rank(k) == Cardinality({j \in 1..n : ks[j] < ks[k]}) + 1
    IN [r \in 1..n |-> ks[CHOOSE k \in 1..n : rank(k) = r]]

\* list(self.traverse(pred=pred)), each node as its path: the traversal of a
\* child is called without pred and filtered by the caller's pred
RECURSIVE traverse(_, _, _), traverse_childs(_, _, _, _, _)
traverse(t, self, pred) ==
    (IF pred_holds(pred, t, self) THEN <<self>> ELSE <<>>)
        \o traverse_childs(t, self, sorted_keys(t, self), 1, pred)

traverse_childs(t, self, keys, i, pred) ==
    IF i > Len(keys) THEN <<>>
    ELSE SelectSeq(traverse(t, Child(self, keys[i]), None),
                   LAMBDA node : pred_holds(pred, t, node))
            \o traverse_childs(t, self, keys, i + 1, pred)

\* find_node returns the node found (its path), None, or raises
\* mutant of found_if_terminal: the terminal flag is not looked at
found_always(t, self) == [res |-> "found", at |-> self]

found_if_terminal(t, self) ==
    IF t[self].terminal
    THEN [res |-> "found", at |-> self]
    ELSE [res |-> "None", at |-> self]

RECURSIVE find_node(_, _, _)
find_node(t, self, node) ==
    IF t[self].prefix = node
    THEN found_if_terminal(t, self)
    ELSE IF t[self].childs = <<>>
    THEN [res |-> "None", at |-> self]
    ELSE IF Len(t[self].prefix) + 1 > Len(node)
    THEN [res |-> "IndexError", at |-> self]
    ELSE IF int(node[Len(t[self].prefix) + 1]) = -1
    THEN [res |-> "ValueError", at |-> self]
    ELSE
        LET next_digit == int(node[Len(t[self].prefix) + 1]) IN
        IF next_digit \notin Keys(t, self)
        THEN [res |-> "None", at |-> self]
        ELSE find_node(t, Child(self, next_digit), node)

\* mutant of SumUsed: the childs are not counted
SumUsed_none(t, self, i) == 0

\* sum(child.used for child in self.childs.values())
RECURSIVE SumUsed(_, _, _)
SumUsed(t, self, i) ==
    IF i > Len(t[self].childs) THEN 0
    ELSE t[Child(self, t[self].childs[i])].used + SumUsed(t, self, i + 1)

\* populate_used: the assertion, then the childs in dict order, then the
\* node's own covers and used.  An AssertionError leaves the nodes already
\* passed updated and ends the pass.
\* mutant of fits: the length of a terminal node is not checked
fits_always(t, self, node_len) == TRUE

\* if self.terminal: assert len(self.prefix) == node_len
fits(t, self, node_len) == t[self].terminal => Len(t[self].prefix) = node_len

\* mutant of own_use: a terminal node does not count itself
own_use_never(t, self) == 0

\* if self.terminal: self.used += 1
own_use(t, self) == IF t[self].terminal THEN 1 ELSE 0

\* mutant of node_covers: the last digit of the prefix is added
node_covers_plus_digit(prefix, node_len) ==
    Pow10(node_len - Len(prefix)) + (IF prefix = <<>> THEN 0 ELSE int(prefix[Len(prefix)]))

\* mutant of node_covers: the length of the prefix is left out
node_covers_of_root(prefix, node_len) == Pow10(node_len)

\* 10 ** (node_len - len(self.prefix))
node_covers(prefix, node_len) == Pow10(node_len - Len(prefix))

RECURSIVE populate_used(_, _, _), populate_childs(_, _, _, _)
populate_used(t, self, node_len) ==
    IF ~fits(t, self, node_len)
    THEN [tree |-> t, err |-> "AssertionError"]
    ELSE
        LET r == populate_childs(t, self, 1, node_len) IN
        IF r.err # "none" THEN r
        ELSE
            LET t1 == r.tree
                covers == node_covers(t1[self].prefix, node_len)
                used == SumUsed(t1, self, 1) + own_use(t1, self)
            IN [tree |-> [t1 EXCEPT ![self].covers = covers, ![self].used = used],
                err |-> "none"]

populate_childs(t, self, i, node_len) ==
    IF i > Len(t[self].childs) THEN [tree |-> t, err |-> "none"]
    ELSE
        LET r == populate_used(t, Child(self, t[self].childs[i]), node_len) IN
        IF r.err # "none" THEN r
        ELSE populate_childs(r.tree, self, i + 1, node_len)

----------------------------------------------------------------------------
(* The enumeration *)

\* mutant of sorted_childs: the least used childs come first
sorted_childs_least_used(t, self) ==
    LET ks == t[self].childs
        n == Len(ks)
        u(k) == t[Child(self, ks[k])].used
        rank(k) == Cardinality({j \in 1..n : u(j) < u(k) \/ (u(j) = u(k) /\ j < k)}) + 1
    IN [r \in 1..n |-> ks[CHOOSE k \in 1..n : rank(k) = r]]

\* sorted(self.childs, key=lambda k: self.childs[k].used, reverse=True): the
\* sort is stable, so childs of equal use keep the order of the dict
sorted_childs(t, self) ==
    LET ks == t[self].childs
        n == Len(ks)
        u(k) == t[Child(self, ks[k])].used
        rank(k) == Cardinality({j \in 1..n : u(j) > u(k) \/ (u(j) = u(k) /\ j < k)}) + 1
    IN [r \in 1..n |-> ks[CHOOSE k \in 1..n : rank(k) = r]]

\* mutant of has_child: digits with a child tree are not skipped
has_child_never(t, self, digit) == FALSE

\* if digit in self.childs
has_child(t, self, digit) == digit \in Keys(t, self)

\* mutant of leading_zero: digit 0 is skipped at every node
leading_zero_anywhere(prefix, digit) == digit = 0

\* if not self.prefix and not digit
leading_zero(prefix, digit) == prefix = <<>> /\ digit = 0

\* f'{self.prefix}{digit}'
single_number(prefix, digit) == prefix \o str(digit)

\* mutant of block_number: the indices of a block are counted down
block_number_downwards(prefix, digit, i, length) ==
    prefix \o str(digit) \o ZeroPad(10 ^ length - 1 - i, length)

\* mutant of block_number: the index is not filled with zeros
block_number_unpadded(prefix, digit, i, length) == prefix \o str(digit) \o str(i)

\* f'{self.prefix}{digit}{i:0{length}}'
block_number(prefix, digit, i, length) == prefix \o str(digit) \o ZeroPad(i, length)

\* One activation of _rec_availabe, suspended inside a generator:
\*   pc "start"  before the first statement
\*   pc "childs" in the loop over the sorted childs, i the next one to enter
\*   pc "digits" in the loop over range(10), at digit
\*   pc "block"  in the generator expression of a block, idx the next index
Frame(self) ==
    [self |-> self, pc |-> "start", childs |-> <<>>, i |-> 0, digit |-> 0,
     covers |-> 0, length |-> 0, idx |-> 0]

\* Runs the suspended activations up to the next yield.  val is the value
\* yielded, or None when the outermost activation returns.
RECURSIVE rec_availabe(_, _)
rec_availabe(t, stack) ==
    IF stack = <<>> THEN [val |-> None, stack |-> <<>>, err |-> "none"]
    ELSE
        LET f == stack[Len(stack)]
            rest == SubSeq(stack, 1, Len(stack) - 1)
            node == t[f.self]
        IN
        CASE f.pc = "start" ->
                IF node.childs = <<>> THEN rec_availabe(t, rest)
                ELSE rec_availabe(t, Append(rest,
                        [f EXCEPT !.pc = "childs", !.childs = sorted_childs(t, f.self), !.i = 1]))
          [] f.pc = "childs" ->
                IF f.i <= Len(f.childs)
                THEN rec_availabe(t, rest \o <<[f EXCEPT !.i = @ + 1],
                                              Frame(Child(f.self, f.childs[f.i]))>>)
                ELSE rec_availabe(t, Append(rest, [f EXCEPT !.pc = "digits", !.digit = 0]))
          [] f.pc = "digits" ->
                IF f.digit >= Radix THEN rec_availabe(t, rest)
                ELSE IF has_child(t, f.self, f.digit)
                THEN rec_availabe(t, Append(rest, [f EXCEPT !.digit = @ + 1]))
                ELSE IF leading_zero(node.prefix, f.digit)
                THEN rec_availabe(t, Append(rest, [f EXCEPT !.digit = @ + 1]))
                ELSE
                    LET covers == t[Child(f.self, f.childs[1])].covers IN
                    IF covers = 1
                    THEN [val |-> single_number(node.prefix, f.digit),
                          stack |-> Append(rest, [f EXCEPT !.digit = @ + 1]),
                          err |-> "none"]
                    ELSE IF covers < 0
                    THEN [val |-> None, stack |-> <<>>, err |-> "TypeError"]
                    ELSE rec_availabe(t, Append(rest,
                            [f EXCEPT !.pc = "block", !.covers = covers,
                                      !.length = Len(str(covers)) - 1, !.idx = 0]))
          [] f.pc = "block" ->
                IF f.idx < f.covers
                THEN [val |-> block_number(node.prefix, f.digit, f.idx, f.length),
                      stack |-> Append(rest, [f EXCEPT !.idx = @ + 1]),
                      err |-> "none"]
                ELSE rec_availabe(t, Append(rest, [f EXCEPT !.pc = "digits", !.digit = @ + 1]))

\* seed = seed or '1000'
DefaultSeed == <<"1", "0", "0", "0">>

seed_or_default(seed) == IF seed = None \/ seed = <<>> THEN DefaultSeed ELSE seed

\* The body of available() up to its first yield: the seed, its insertion
\* into a tree without childs, the accounting pass, the first value.
\* mutant of seeds_tree: the seed is inserted into a tree that has childs too
seeds_tree_always(t, seed) == seed # <<>>

\* mutant of seeds_tree: the seed is not inserted
seeds_tree_never(t, seed) == FALSE

\* if not self.childs and seed
seeds_tree(t, seed) == t[Root].childs = <<>> /\ seed # <<>>

available(t, seed0) ==
    LET seed == seed_or_default(seed0)
        seeding == seeds_tree(t, seed)
        a == IF seeding THEN add_node(t, Root, seed) ELSE [tree |-> t, err |-> "none"]
        p == populate_used(a.tree, Root, Len(seed))
    IN
    IF a.err # "none"
    THEN [tree |-> a.tree, val |-> None, stack |-> <<>>, err |-> a.err, seeded |-> {}]
    ELSE IF p.err # "none"
    THEN [tree |-> p.tree, val |-> None, stack |-> <<>>, err |-> p.err,
          seeded |-> IF seeding THEN {seed} ELSE {}]
    ELSE
        LET r == rec_availabe(p.tree, <<Frame(Root)>>) IN
        [tree |-> p.tree, val |-> r.val, stack |-> r.stack, err |-> r.err,
         seeded |-> IF seeding THEN {seed} ELSE {}]

----------------------------------------------------------------------------
(* The caller *)

\* identifiers the caller inserts
Pool ==
    { <<"1">>, <<"2">>, <<"3">>, <<"4">>,
      <<"1", "2">>, <<"1", "7">>, <<"3", "0">>, <<"0", "5">> }

\* lengths the caller passes to populate_used
NodeLens == {1, 2, 3}

\* seeds the caller passes to available()
Seeds == { None, <<"5">>, <<"1", "7">>, <<"1", "7", "0">> }

NoGen == [state |-> "none", seed |-> None, stack |-> <<>>]

Idle == gen.state \in {"none", "done", "failed"}

\* WebexActivator.__init__ and MonitorInbox.__init__: nothing is scheduled,
\* tracked or submitted; start() is followed by the caller's join()
ActivatorInit ==
    [ arrived |-> {}, unseen |-> {},
      mon |-> [pc |-> "loop", loops |-> 3, scheduled |-> {}, todo |-> <<>>],
      monStop |-> FALSE,
      queue |-> <<>>,
      act |-> [pc |-> "test", item |-> <<>>, i |-> 0],
      stop |-> FALSE,
      tracking |-> {},
      submits |-> <<>>, running |-> {}, calling |-> {},
      poolShut |-> FALSE,
      join |-> "monitor",
      fails |-> 0 ]

\* no people exist yet and set_uid has not been called
RandomUserInit ==
    [ existing |-> <<>>, users |-> <<>>, uids |-> <<>>, was |-> <<>>,
      calls |-> 0 ]

Init ==
    /\ wa = ActivatorInit
    /\ ru = RandomUserInit
    /\ tree = EmptyTree
    /\ inserted = {}
    /\ npop = 0
    /\ lastErr = "none"
    /\ gen = NoGen
    /\ ngen = 0
    /\ seeded = {}
    /\ out = <<>>
    /\ prev = <<>>

\* tree.add_node(node=node); from_list is this call for each node of a list
AddNode(node) ==
    /\ gen.state = "none"
    /\ npop = 0
    /\ node \in inserted \/ Cardinality(inserted) < MaxIds
    /\ LET r == add_node(tree, Root, node) IN
        /\ tree' = r.tree
        /\ lastErr' = r.err
        /\ inserted' = IF r.err = "none" THEN inserted \cup {node} ELSE inserted
    /\ UNCHANGED <<npop, gen, ngen, seeded, out, prev, wa, ru>>

\* tree.populate_used(node_len=node_len)
PopulateUsed(node_len) ==
    /\ Idle
    /\ npop < MaxPopulate
    /\ LET r == populate_used(tree, Root, node_len) IN
        /\ tree' = r.tree
        /\ lastErr' = r.err
    /\ npop' = npop + 1
    /\ UNCHANGED <<inserted, gen, ngen, seeded, out, prev, wa, ru>>

\* g = tree.available(seed=seed): creates the generator and runs none of it
Available(seed) ==
    /\ Idle
    /\ ngen < MaxGens
    /\ gen' = [state |-> "created", seed |-> seed, stack |-> <<>>]
    /\ ngen' = ngen + 1
    /\ out' = <<>>
    /\ lastErr' = "none"
    /\ UNCHANGED <<tree, inserted, npop, seeded, prev, wa, ru>>

\* next(g)
GenNext ==
    /\ gen.state \in {"created", "running"}
    /\ Len(out) < MaxPulls
    /\ LET r == IF gen.state = "created"
                THEN available(tree, gen.seed)
                ELSE [tree |-> tree, seeded |-> {}] @@ rec_availabe(tree, gen.stack)
       IN
        /\ tree' = r.tree
        /\ seeded' = seeded \cup r.seeded
        /\ lastErr' = r.err
        /\ IF r.err # "none"
           THEN /\ gen' = [gen EXCEPT !.state = "failed", !.stack = <<>>]
                /\ out' = out
           ELSE IF r.val = None
           THEN /\ gen' = [gen EXCEPT !.state = "done", !.stack = <<>>]
                /\ out' = out
           ELSE /\ gen' = [gen EXCEPT !.state = "running", !.stack = r.stack]
                /\ out' = Append(out, r.val)
    /\ UNCHANGED <<inserted, npop, ngen, prev, wa, ru>>

Next ==
    \/ \E node \in Pool : AddNode(node)
    \/ \E node_len \in NodeLens : PopulateUsed(node_len)
    \/ \E seed \in Seeds : Available(seed)
    \/ GenNext

Spec == Init /\ [][Next]_vars

----------------------------------------------------------------------------
(* A caller that builds, accounts and enumerates short identifiers only *)

SeedsShort == { <<"5">>, <<"1", "7">> }

NextShort ==
    \/ \E node \in Pool : AddNode(node)
    \/ \E node_len \in NodeLens : PopulateUsed(node_len)
    \/ \E seed \in SeedsShort : Available(seed)
    \/ GenNext

SpecShort == Init /\ [][NextShort]_vars

----------------------------------------------------------------------------
(* A caller that fills sibling ranges unevenly and stops enumerations early *)

\* identifiers of one length that fill the ranges of a node unevenly
PoolOrder ==
    { <<"1", "2">>, <<"1", "7">>, <<"3", "0">>, <<"3", "1">>, <<"5", "0">>,
      <<"1", "2", "0">>, <<"1", "2", "1">>, <<"1", "3", "0">> }

SeedsOrder == { <<"1", "7">>, <<"1", "3">>, <<"5", "5", "5">> }

\* numbers of values after which the consumer stops pulling
StopAfter == {1, 5}

\* the consumer drops a generator it has pulled k values from, as test_4888
\* does with next(...), and calls tree.available(seed=seed) again
Restart(seed) ==
    /\ gen.state = "running"
    /\ Len(out) \in StopAfter
    /\ ngen < MaxGens
    /\ prev' = out
    /\ gen' = [state |-> "created", seed |-> seed, stack |-> <<>>]
    /\ ngen' = ngen + 1
    /\ out' = <<>>
    /\ lastErr' = "none"
    /\ UNCHANGED <<tree, inserted, npop, seeded, wa, ru>>

NextOrder ==
    \/ \E node \in PoolOrder : AddNode(node)
    \/ \E seed \in SeedsOrder : Available(seed)
    \/ \E seed \in SeedsOrder : Restart(seed)
    \/ GenNext

SpecOrder == Init /\ [][NextOrder]_vars

----------------------------------------------------------------------------
(* A caller that inserts while it holds a generator *)

PoolLazy == { <<"1", "2">>, <<"1", "7">>, <<"3", "0">>, <<"3", "1">> }

SeedsLazy == { <<"5">>, <<"1", "7">> }

\* tree.add_node(node=node) after g = tree.available(...), before the first
\* next(g) or between two of them
AddNodeLate(node) ==
    /\ gen.state \in {"created", "running"}
    /\ node \in inserted \/ Cardinality(inserted) < MaxIds
    /\ LET r == add_node(tree, Root, node) IN
        /\ tree' = r.tree
        /\ lastErr' = r.err
        /\ inserted' = IF r.err = "none" THEN inserted \cup {node} ELSE inserted
    /\ UNCHANGED <<npop, gen, ngen, seeded, out, prev, wa, ru>>

NextLazy ==
    \/ \E seed \in SeedsLazy : Available(seed)
    \/ \E node \in PoolLazy : AddNodeLate(node)
    \/ GenNext

SpecLazy == Init /\ [][NextLazy]_vars

----------------------------------------------------------------------------
(* A caller that passes malformed identifiers and calls add_node on subtrees *)

\* identifiers the caller inserts, some with a character that is no digit
PoolBad ==
    { <<"7">>, <<"1", "2">>, <<"1", "2", "3">>,
      <<"x", "1">>, <<"1", "x">>, <<"1", "2", "x">> }

\* identifiers the caller passes to add_node of a node below the root
PoolAt == { <<>>, <<"1">>, <<"3">>, <<"1", "2">>, <<"1", "3">>, <<"2", "3">> }

\* node.add_node(node=ident) on a node below the root, as add_node itself
\* calls it; the root's caller has not registered ident by it
AddNodeAt(self, ident) ==
    /\ gen.state = "none"
    /\ npop = 0
    /\ self # Root
    /\ LET r == add_node(tree, self, ident) IN
        /\ tree' = r.tree
        /\ lastErr' = r.err
    /\ UNCHANGED <<inserted, npop, gen, ngen, seeded, out, prev, wa, ru>>

NextBad ==
    \/ \E node \in PoolBad : AddNode(node)
    \/ \E self \in DOMAIN tree : \E ident \in PoolAt : AddNodeAt(self, ident)

SpecBad == Init /\ [][NextBad]_vars

----------------------------------------------------------------------------
(* Vocabulary of the properties *)

\* every identifier inserted into the tree: by the caller, or as the seed of
\* an available() call on a tree without childs
Registered == inserted \cup seeded

Yielded == {out[i] : i \in 1..Len(out)}

\* a non-empty set of identifiers of one length, none with a leading zero
Uniform(ids) ==
    /\ ids # {}
    /\ \A x, y \in ids : Len(x) = Len(y)
    /\ \A x \in ids : x # <<>> /\ x[1] # "0"

LenOf(ids) == Len(CHOOSE x \in ids : TRUE)

\* the decimal strings of length L whose first digit is 1..9
AllIds(L) ==
    {x \in [1..L -> {DigitChars[d] : d \in DOMAIN DigitChars}] : x[1] # "0"}

\* the node_len the accounting pass of the current generator was given
AccountingLen == Len(seed_or_default(gen.seed))

Pulled == gen.state \in {"running", "done"}

\* the path of dict keys that the characters of an identifier name
PathOf(x) == [k \in 1..Len(x) |-> int(x[k])]

----------------------------------------------------------------------------
(* Properties *)

\* C1 (completeness): when an enumeration has run to its end over a tree
\* whose registered identifiers S have one length L and no leading zero,
\* every length-L string with first digit 1..9 that is not in S has been
\* yielded, and |S| + (number of values yielded) = 9 * 10^(L-1).
C1_Completeness ==
    (gen.state = "done" /\ Uniform(Registered)) =>
        LET L == LenOf(Registered) IN
        /\ \A x \in AllIds(L) : x \notin Registered => x \in Yielded
        /\ Cardinality(Registered) + Len(out) = 9 * 10 ^ (L - 1)

C1_Witness ==
    /\ gen.state = "done"
    /\ inserted = {<<"1", "2">>, <<"1", "7">>, <<"3", "0">>}
    /\ Len(out) = 87

NotRegistered(x) ==
    /\ find_node(tree, Root, x).res = "None"
    /\ x \notin Registered

\* C2 (disjointness): no value yielded by a generator is a registered
\* identifier: find_node of it returns None and it was never inserted.
\* Pulling leaves the tree as it is, so each value is looked up in the state
\* that yielded it, and all of them again when the enumeration has ended.
C2_Disjoint ==
    /\ gen.state = "running" => NotRegistered(out[Len(out)])
    /\ gen.state = "done" => \A i \in 1..Len(out) : NotRegistered(out[i])
    /\ Pulled => Yielded \cap Registered = {}

C2_Witness ==
    /\ gen.state = "done"
    /\ {<<"1", "2">>, <<"1", "7">>} \subseteq inserted
    /\ {<<"1", "1">>, <<"1", "8">>, <<"9", "9">>} \subseteq Yielded

\* C3 (uniqueness): one enumeration yields no value twice: the values
\* yielded so far are as many as the pulls that yielded them.
C3_Unique == Cardinality(Yielded) = Len(out)

C3_Witness ==
    /\ gen.state = "done"
    /\ Len(out) = 899

\* C4 (length): every value a generator yields has the accounting length L,
\* which is also the length of every registered identifier.
C4_Length ==
    Pulled =>
        /\ \A i \in 1..Len(out) : Len(out[i]) = AccountingLen
        /\ \A x \in Registered : Len(x) = AccountingLen

\* a single identifier next to a leaf, a member of a block below the root,
\* a member of a block at the root
C4_Witness ==
    /\ gen.state = "done"
    /\ AccountingLen = 3
    /\ {<<"1", "7", "1">>, <<"1", "0", "5">>, <<"2", "0", "5">>} \subseteq Yielded

\* C5 (round trip): find_node finds every registered identifier, at a
\* terminal node whose prefix is that identifier, whatever was inserted
\* before or after it.
C5_RoundTrip ==
    \A x \in Registered :
        LET r == find_node(tree, Root, x) IN
        /\ r.res = "found"
        /\ tree[r.at].terminal
        /\ tree[r.at].prefix = x

\* an identifier, a proper prefix of it and a sibling, all inserted
C5_Witness ==
    {<<"1">>, <<"1", "2">>, <<"1", "7">>, <<"3", "0">>} \subseteq inserted

\* identifiers looked up: the pool, and identifiers never inserted
Lookups ==
    Pool \cup { <<"5">>, <<"0">>, <<"1", "3">>, <<"1", "2", "3">>,
                <<"1", "7", "0">>, <<"1", "7", "1">>, <<"3", "0", "0", "0">> }

Scenario3 ==
    << <<"3", "0", "0", "1">>, <<"3", "0", "0", "2">>, <<"4", "0", "0", "0">>,
       <<"4", "1", "0", "0">>, <<"4", "1", "2", "3">>, <<"4", "1", "2", "4">> >>

\* the results of looking up 3001 and 3000 in the tree of Scenario3
Scenario3Lookups ==
    LET t == from_list(EmptyTree, Scenario3) IN
    << find_node(t, Root, <<"3", "0", "0", "1">>).res,
       find_node(t, Root, <<"3", "0", "0", "0">>).res >>

\* C6 (lookup soundness): find_node finds x exactly when x is registered and
\* returns None otherwise: when a child on the path is absent, when x is a
\* proper prefix of a registered identifier, when x extends past one.  After
\* inserting 3001, 3002, 4000, 4100, 4123, 4124 it finds 3001 and not 3000.
C6_Soundness ==
    /\ \A x \in Lookups :
        LET r == find_node(tree, Root, x) IN
        /\ r.res \in {"found", "None"}
        /\ r.res = "found" <=> x \in Registered
    /\ Scenario3Lookups = <<"found", "None">>

\* 12 is registered: 1 is a proper prefix that is a node and not terminal,
\* 123 extends past 12, and 5 has no child at the root
C6_Witness ==
    /\ <<"1", "2">> \in inserted
    /\ <<"1">> \notin inserted
    /\ <<1>> \in DOMAIN tree /\ ~tree[<<1>>].terminal
    /\ <<5>> \notin DOMAIN tree
    /\ find_node(tree, Root, <<"1">>).res = "None"
    /\ find_node(tree, Root, <<"1", "2", "3">>).res = "None"
    /\ find_node(tree, Root, <<"5">>).res = "None"

\* C7 (the seed plays no role on a tree with nodes): once the caller has
\* inserted identifiers of one length L, a generator made without a seed
\* completes the accounting pass and yields the free identifiers of length L.
C7_NoSeedCompletes ==
    (Uniform(inserted) /\ gen.seed = None /\ gen.state \in {"running", "done", "failed"}) =>
        /\ gen.state # "failed"
        /\ \A i \in 1..Len(out) : Len(out[i]) = LenOf(inserted)
        /\ gen.state = "done" => Yielded = AllIds(LenOf(inserted)) \ inserted

\* the tree of 1, 2, 3, 4 after populate_used(1)
Accounted1234 ==
    /\ inserted = {<<"1">>, <<"2">>, <<"3">>, <<"4">>}
    /\ npop = 1
    /\ tree[Root].covers = 10
    /\ tree[Root].used = 4

\* C8 (scenario 1): after inserting 1, 2, 3, 4 and populate_used(1), the
\* generator made without a seed yields 5, 6, 7, 8, 9 in this order and ends.
C8_Scenario1 ==
    (Accounted1234 /\ ngen = 1 /\ gen.seed = None /\ gen.state \in {"done", "failed"}) =>
        /\ gen.state = "done"
        /\ out = << <<"5">>, <<"6">>, <<"7">>, <<"8">>, <<"9">> >>

RECURSIVE Flatten(_)
Flatten(ss) == IF ss = <<>> THEN <<>> ELSE Head(ss) \o Flatten(Tail(ss))

\* the list test_empty_tree expects of available(seed='170') on an empty tree
Expected170 ==
    [i \in 1..10 |-> str(169 + i)]
    \o Flatten([k \in 1..9 |->
            [i \in 1..10 |-> <<"1", <<"0", "1", "2", "3", "4", "5", "6", "8", "9">>[k]>> \o str(i - 1)]])
    \o Flatten([k \in 1..8 |->
            [i \in 1..100 |-> str(k + 1) \o ZeroPad(i - 1, 2)]])

\* C10 (order on an empty tree): available(seed='170') on an empty tree
\* yields 170..179, then 1d0..1d9 for d = 0,1,2,3,4,5,6,8,9, then d00..d99
\* for d = 2..9: the block of the seed, starting with the seed, comes first.
C10_EmptyTreeOrder ==
    (inserted = {} /\ ngen = 1 /\ gen.seed = <<"1", "7", "0">> /\ Pulled) =>
        /\ Len(out) <= Len(Expected170)
        /\ out = SubSeq(Expected170, 1, Len(out))
        /\ gen.state = "done" => out = Expected170

----------------------------------------------------------------------------
(* Order of the enumeration *)

UsedOf(self, key) == tree[Child(self, key)].used

\* identifier x lies below node self, in the range of digit RangeOf(self, x)
Under(self, x) == Len(x) > Len(self) /\ \A k \in 1..Len(self) : int(x[k]) = self[k]

RangeOf(self, x) == int(x[Len(self) + 1])

\* the yielded identifiers that lie below node self, in the order of the yields
YieldedUnder(self) == SelectSeq(out, LAMBDA x : Under(self, x))

\* along the enumeration the rank of the range of node self that is being
\* yielded never rises: whenever x is yielded before y, both below self, the
\* range of x ranks at least as high as the range of y
NeverRises(self, rank(_, _)) ==
    LET s == YieldedUnder(self) IN
    \A k \in 1..(Len(s) - 1) :
        rank(self, RangeOf(self, s[k])) >= rank(self, RangeOf(self, s[k + 1]))

\* a child ranks by its use, a digit without child tree below every child
UseRank(self, digit) ==
    IF digit \in Keys(tree, self) THEN UsedOf(self, digit) ELSE -1

\* C11: at every node of an accounted tree the free identifiers of a child
\* that is used more are all yielded before those of a child that is used
\* less, and the identifiers of a digit without child tree are yielded only
\* after those of all the childs of the node
C11_Priority ==
    gen.state = "done" => \A self \in DOMAIN tree : NeverRises(self, UseRank)

C11_Witness ==
    /\ gen.state = "done"
    /\ inserted = {<<"1", "2", "0">>, <<"1", "2", "1">>, <<"1", "3", "0">>}
    /\ UsedOf(<<1>>, 2) = 2 /\ UsedOf(<<1>>, 3) = 1
    /\ out[1] = <<"1", "2", "2">>
    /\ out[9] = <<"1", "3", "1">>
    /\ out[18] = <<"1", "0", "0">>
    /\ out[98] = <<"2", "0", "0">>

\* a child ranks by its use and, among childs of equal use, by its digit,
\* the smaller digit higher
DigitRank(self, digit) ==
    IF digit \in Keys(tree, self)
    THEN UsedOf(self, digit) * Radix + (Radix - 1 - digit)
    ELSE -1

\* C12: of two childs of a node that are used equally the one with the
\* smaller digit is enumerated first, whatever the order of insertion
C12_TieByDigit ==
    gen.state = "done" => \A self \in DOMAIN tree : NeverRises(self, DigitRank)

----------------------------------------------------------------------------
(* Leading zeros, lengths, duplicates, traversal, covers *)

\* C13: no identifier that available() yields starts with the digit 0,
\* whatever was inserted into the tree and whatever the seed
C13_NoLeadingZero == \A i \in 1..Len(out) : out[i][1] # "0"

\* some terminal node of the tree has a prefix whose length is not L
Mismatch(t, L) == \E self \in DOMAIN t : t[self].terminal /\ Len(t[self].prefix) # L

\* the tree as a caller finds it; the pulls of a generator leave it alone
Settled == gen.state # "running" \/ Len(out) = 1

\* C14: populate_used(L) raises whenever some terminal node has a prefix of
\* another length than L, and available() on such a tree raises in its
\* accounting pass, before it yields anything
C14_LengthMismatch ==
    /\ Settled => \A L \in NodeLens :
            Mismatch(tree, L) => populate_used(tree, Root, L).err = "AssertionError"
    /\ gen.state = "created" =>
            LET r == available(tree, gen.seed) IN
            Mismatch(r.tree, AccountingLen) => (r.err = "AssertionError" /\ r.val = None)
    /\ (gen.state \in {"running", "done", "failed"} /\ Mismatch(tree, AccountingLen)) =>
            (gen.state = "failed" /\ out = <<>>)

C14_Witness ==
    /\ {<<"1">>, <<"1", "2">>} \subseteq inserted
    /\ gen.state = "failed"
    /\ gen.seed = <<"1", "7">>
    /\ lastErr = "AssertionError"
    /\ out = <<>>

\* the list without the elements that occurred before
RECURSIVE Distinct(_)
Distinct(nodes) ==
    IF nodes = <<>> THEN <<>>
    ELSE LET front == Distinct(SubSeq(nodes, 1, Len(nodes) - 1))
             last == nodes[Len(nodes)]
         IN IF \E k \in 1..Len(front) : front[k] = last THEN front ELSE Append(front, last)

ListPool == { <<"1">>, <<"1", "2">>, <<"1", "7">>, <<"3", "0">> }

MaxList == 3

Lists == UNION { [1..n -> ListPool] : n \in 0..MaxList }

\* from_list of a list with duplicates builds the tree of the list without
DuplicatesInList ==
    \A nodes \in Lists : from_list(EmptyTree, nodes) = from_list(EmptyTree, Distinct(nodes))

\* C15: inserting an identifier that is registered leaves the nodes, their
\* prefixes and their terminal flags as they were, and from_list of a list
\* with duplicates builds the tree of the list without them
C15_Idempotent ==
    /\ Settled => \A node \in Registered :
            add_node(tree, Root, node) = [tree |-> tree, err |-> "none"]
    /\ DuplicatesInList

C15_Witness ==
    /\ inserted = {<<"1", "2">>, <<"1", "7">>, <<"3", "0">>}
    /\ tree[<<1>>].childs = <<7, 2>>
    /\ gen.state = "none"
    /\ add_node(tree, Root, <<"1", "2">>).tree = tree

\* path p comes before path q in pre-order with ascending digits: p is an
\* ancestor of q, or has the smaller digit where the two part
RECURSIVE PreOrder(_, _)
PreOrder(p, q) ==
    IF p = <<>> THEN q # <<>>
    ELSE IF q = <<>> THEN FALSE
    ELSE IF Head(p) # Head(q) THEN Head(p) < Head(q)
    ELSE PreOrder(Tail(p), Tail(q))

\* the nodes below and including self
SubTree(self) ==
    {p \in DOMAIN tree : Len(p) >= Len(self) /\ SubSeq(p, 1, Len(self)) = self}

\* sorted(ids): Python orders strings as PreOrder orders their digits
SortedIds(ids) ==
    LET rank(x) == Cardinality({y \in ids : PreOrder(PathOf(y), PathOf(x))}) + 1
    IN [r \in 1..Cardinality(ids) |-> CHOOSE x \in ids : rank(x) = r]

\* C16: traverse(pred) yields the nodes that satisfy pred, all nodes when
\* pred is left out, each once, in pre-order with the childs in ascending
\* digit order; so the prefixes of the terminal nodes come out as the sorted
\* list of the inserted identifiers
C16_Traverse ==
    gen.state = "none" =>
        /\ \A self \in DOMAIN tree : \A pred \in Preds :
            LET s == traverse(tree, self, pred) IN
            /\ {s[k] : k \in 1..Len(s)} = {p \in SubTree(self) : pred_holds(pred, tree, p)}
            /\ \A k \in 1..(Len(s) - 1) : PreOrder(s[k], s[k + 1])
        /\ LET s == traverse(tree, Root, <<"terminal">>) IN
            [k \in 1..Len(s) |-> tree[s[k]].prefix] = SortedIds(Registered)

C16_Witness ==
    /\ inserted = {<<"3", "0">>, <<"1", "7">>, <<"1", "2">>}
    /\ tree[Root].childs = <<3, 1>>
    /\ tree[<<1>>].childs = <<7, 2>>
    /\ traverse(tree, Root, <<"terminal">>) = << <<1, 2>>, <<1, 7>>, <<3, 0>> >>
    /\ traverse(tree, Root, <<"childs">>) = << <<>>, <<1>>, <<3>> >>

\* C20: after a populate_used(L) that did not raise every node, the root
\* too, has covers = 10 ^ (L - len(prefix)), whatever covers was before
C20_Covers ==
    /\ Settled => \A L \in NodeLens :
            LET r == populate_used(tree, Root, L) IN
            r.err = "none" =>
                \A self \in DOMAIN r.tree :
                    r.tree[self].covers = 10 ^ (L - Len(r.tree[self].prefix))
    /\ Pulled => \A self \in DOMAIN tree :
            tree[self].covers = 10 ^ (AccountingLen - Len(tree[self].prefix))

C20_Witness ==
    /\ npop = 1 /\ lastErr = "none" /\ gen.state = "done"
    /\ inserted = {<<"1", "2">>, <<"1", "7">>, <<"3", "0">>}
    /\ tree[Root].covers = 100
    /\ tree[<<1>>].covers = 10
    /\ tree[<<1, 7>>].covers = 1

----------------------------------------------------------------------------
(* Stopping an enumeration early *)

\* the consumer stopped pulling from a generator, and the generator it made
\* then was given a seed of the length of the identifiers of that one
Resumed == prev # <<>> /\ Len(prev[1]) = AccountingLen

\* a pull of a generator that has yielded before
LaterPull == gen.state = "running" /\ gen'.state \in {"running", "done"} /\ ngen' = ngen

\* C17: when the consumer stops pulling from a generator, the values it has
\* pulled are the first values of a full enumeration, the pulls have left
\* the tree as the accounting pass left it, and a generator made later on
\* the same tree yields the complete sequence again
C17_EarlyStop ==
    /\ [](Resumed =>
            /\ gen.state # "failed"
            /\ Pulled => \A k \in 1..Len(out) : k <= Len(prev) => out[k] = prev[k]
            /\ gen.state = "done" =>
                    /\ Len(out) >= Len(prev)
                    /\ Yielded = AllIds(AccountingLen) \ Registered)
    /\ [][LaterPull => tree' = tree]_vars

C17_Witness ==
    /\ inserted = {<<"1", "2">>, <<"1", "7">>, <<"3", "0">>}
    /\ prev = << <<"1", "0">>, <<"1", "1">>, <<"1", "3">>, <<"1", "4">>, <<"1", "5">> >>
    /\ gen.state = "done"
    /\ gen.seed = <<"1", "3">>
    /\ SubSeq(out, 1, 5) = prev
    /\ Len(out) = 87

----------------------------------------------------------------------------
(* Malformed identifiers and add_node below the root *)

\* identifiers with a character that is no digit, at every position
BadIds ==
    { <<"x">>, <<"x", "1">>, <<"1", "x">>, <<"7", "x">>, <<"3", "x">>,
      <<"1", "2", "x">>, <<"1", "x", "2">>, <<"1", "2", "3", "x">> }

\* the position of the first character of x that is no digit
FirstBad(x) == CHOOSE k \in 1..Len(x) : int(x[k]) = -1 /\ \A j \in 1..(k - 1) : int(x[j]) # -1

\* the walk of find_node comes to read the first character of x that is no
\* digit: the digits before it name a node of the tree, and it has childs
ReadsBad(x) ==
    LET self == PathOf(SubSeq(x, 1, FirstBad(x) - 1)) IN
    self \in DOMAIN tree /\ tree[self].childs # <<>>

\* C18 as claimed: add_node and find_node raise whenever the identifier has a
\* character that is no digit, at any position and on any tree, the empty
\* tree too
C18_AlwaysRaises ==
    \A x \in BadIds :
        /\ add_node(tree, Root, x).err = "ValueError"
        /\ find_node(tree, Root, x).res = "ValueError"

\* C18 amended: add_node raises whenever the identifier has a character that
\* is no digit; find_node raises when its walk comes to read that character
\* as a branching digit, and returns None when the walk ends before it, as
\* it does on the empty tree
C18_RaisesWhereRead ==
    \A x \in BadIds :
        /\ add_node(tree, Root, x).err = "ValueError"
        /\ find_node(tree, Root, x).res = (IF ReadsBad(x) THEN "ValueError" ELSE "None")

C18_Witness ==
    /\ {<<"1", "2">>, <<"1", "2", "3">>} \subseteq inserted
    /\ lastErr = "ValueError"
    /\ find_node(tree, Root, <<"1", "2", "x">>).res = "ValueError"
    /\ find_node(tree, Root, <<"1", "2", "3", "x">>).res = "None"
    /\ find_node(tree, Root, <<"3", "x">>).res = "None"
    /\ find_node(tree, Root, <<"x", "1">>).res = "ValueError"

\* C19: add_node on a node whose prefix is not the identifier, with an
\* identifier that is not longer than that prefix, raises the assertion and
\* makes no node and sets no terminal flag
C19_Rejected ==
    \A self \in DOMAIN tree : \A ident \in PoolAt :
        (tree[self].prefix # ident /\ ~(Len(ident) > Len(tree[self].prefix))) =>
            add_node(tree, self, ident) = [tree |-> tree, err |-> "AssertionError"]

----------------------------------------------------------------------------
(* The fields used and covers *)

\* the sum of used over the childs in keys
RECURSIVE UsedBelow(_, _, _)
UsedBelow(t, self, keys) ==
    IF keys = {} THEN 0
    ELSE LET key == CHOOSE k \in keys : TRUE IN
         t[Child(self, key)].used + UsedBelow(t, self, keys \ {key})

\* used is the sum over the childs plus one for a terminal node, the root
\* counts the registered identifiers, and no node is used beyond its covers
Accounted(t) ==
    /\ \A self \in DOMAIN t :
        /\ t[self].used = UsedBelow(t, self, Keys(t, self)) + (IF t[self].terminal THEN 1 ELSE 0)
        /\ t[self].used <= t[self].covers
    /\ t[Root].used = Cardinality(Registered)

\* C21: after a populate_used(L) that did not raise every node has used =
\* sum of used over its childs + (1 if terminal else 0), so used of the root
\* is the number of distinct inserted identifiers, and used <= covers
C21_UsedSums ==
    /\ Settled => \A L \in NodeLens :
            LET r == populate_used(tree, Root, L) IN
            r.err = "none" => Accounted(r.tree)
    /\ Pulled => Accounted(tree)

C21_Witness ==
    /\ npop = 1 /\ lastErr = "none" /\ gen.state = "none"
    /\ inserted = {<<"1", "2">>, <<"1", "7">>, <<"3", "0">>}
    /\ tree[Root].used = 3
    /\ tree[<<1>>].used = 2
    /\ tree[<<1, 7>>].used = 1 /\ tree[<<1, 7>>].covers = 1

\* all childs of one node have equal covers
EqualSiblings(t) ==
    \A self \in DOMAIN t : \A a, b \in Keys(t, self) :
        t[Child(self, a)].covers = t[Child(self, b)].covers

\* C22 as claimed: in every reachable state of the tree, after any sequence
\* of insertions, populate_used and available calls, all childs of one node
\* have equal covers
C22_SiblingsAlways == EqualSiblings(tree)

\* C22 amended: all childs of one node have equal covers after a
\* populate_used that did not raise and while a generator yields; a pass
\* that raises leaves the childs it did not reach with their old covers
C22_SiblingsAccounted ==
    /\ Settled => \A L \in NodeLens :
            LET r == populate_used(tree, Root, L) IN
            r.err = "none" => EqualSiblings(r.tree)
    /\ Pulled => EqualSiblings(tree)

C22_Witness ==
    /\ {<<"1", "2">>, <<"3", "0">>} \subseteq inserted
    /\ gen.state = "running"
    /\ tree[<<1>>].covers = 10 /\ tree[<<3>>].covers = 10

\* add_node left used and covers of the nodes of t as they were, and the
\* nodes it made have used = 0 and covers = 0
FieldsKept(t, t1) ==
    /\ \A self \in DOMAIN t :
        /\ self \in DOMAIN t1
        /\ t1[self].used = t[self].used
        /\ t1[self].covers = t[self].covers
    /\ \A self \in DOMAIN t1 \ DOMAIN t : t1[self].used = 0 /\ t1[self].covers = 0

\* C23: add_node leaves used and covers of every node as they are and makes
\* nodes with used = 0 and covers = 0 (find_node and traverse return a value
\* and assign nothing), and a second populate_used(L) leaves what the first
\* one left, whether it raises or not
C23_OnlyAccounting ==
    Settled =>
        /\ \A node \in Pool : FieldsKept(tree, add_node(tree, Root, node).tree)
        /\ \A L \in NodeLens :
            LET r == populate_used(tree, Root, L) IN
            populate_used(r.tree, Root, L) = r

C23_Witness ==
    /\ npop = 1 /\ lastErr = "none" /\ gen.state = "none"
    /\ inserted = {<<"1", "2">>, <<"1", "7">>}
    /\ tree[Root].used = 2 /\ tree[Root].covers = 100
    /\ LET t1 == add_node(tree, Root, <<"3", "0">>).tree IN
        /\ t1[Root].used = 2
        /\ t1[<<3>>].covers = 0
        /\ populate_used(t1, Root, 2).tree[Root].used = 3

----------------------------------------------------------------------------
(* The structure of the tree *)

\* all prefixes of the identifiers in ids, the empty one too
Prefixes(ids) == {<<>>} \cup UNION {{SubSeq(x, 1, k) : k \in 0..Len(x)} : x \in ids}

\* a step keeps every node and every terminal flag that is set
NodesKept ==
    \A self \in DOMAIN tree :
        self \in DOMAIN tree' /\ (tree[self].terminal => tree'[self].terminal)

\* C24: after insertions that all succeeded the child under digit d of a node
\* has the prefix of the node followed by d, the prefixes of the nodes are
\* the prefixes of the inserted identifiers, the empty one too, and no
\* operation removes a node or clears a terminal flag
C24_Structure ==
    /\ [](/\ \A self \in DOMAIN tree : \A d \in Keys(tree, self) :
                tree[Child(self, d)].prefix = tree[self].prefix \o str(d)
          /\ {tree[self].prefix : self \in DOMAIN tree} = Prefixes(Registered)
          /\ Cardinality(DOMAIN tree) = Cardinality(Prefixes(Registered)))
    /\ [][NodesKept]_vars

C24_Witness ==
    /\ inserted = {<<"1", "2">>, <<"1", "7">>, <<"3", "0">>, <<"3">>}
    /\ Cardinality(DOMAIN tree) = 6
    /\ tree[<<3>>].terminal /\ tree[<<3, 0>>].prefix = <<"3", "0">>
    /\ npop = 1 /\ gen.state = "failed"

----------------------------------------------------------------------------
(* The blocks of the digits without child tree *)

\* the decimal digits of index, width of them, the highest first
DigitsOf(index, width) ==
    [k \in 1..width |-> DigitChars[((index \div 10 ^ (width - k)) % 10) + 1]]

\* the identifiers of length L in the range of digit d of the node self, in
\* ascending order: self.prefix, d, and the indices 0 .. block_size - 1
BlockOf(self, d, L) ==
    LET width == L - Len(self) - 1
        block_size == 10 ^ width
    IN [i \in 1..block_size |-> tree[self].prefix \o <<DigitChars[d + 1]>> \o DigitsOf(i - 1, width)]

\* the blocks of the digits from d on that have no child tree at node self,
\* digit 0 at the root left out, one after the other
RECURSIVE BlocksFrom(_, _, _)
BlocksFrom(self, d, L) ==
    IF d >= Radix THEN <<>>
    ELSE (IF d \in Keys(tree, self) \/ (self = Root /\ d = 0) THEN <<>> ELSE BlockOf(self, d, L))
            \o BlocksFrom(self, d + 1, L)

\* the yielded identifiers in the ranges of node self that have no child tree
YieldedFree(self) ==
    SelectSeq(out, LAMBDA x : Under(self, x) /\ RangeOf(self, x) \notin Keys(tree, self))

\* C25: for each digit d without child tree at a node N that has childs,
\* digit 0 at the root apart, the enumeration yields the 10 ^ (L - len(N.prefix)
\* - 1) identifiers N.prefix + d + zero-padded index in ascending index order,
\* a single identifier N.prefix + d when that is 1, and it takes the digits
\* without child tree of one node in ascending order
C25_Blocks ==
    gen.state = "done" =>
        \A self \in DOMAIN tree :
            tree[self].childs # <<>> => YieldedFree(self) = BlocksFrom(self, 0, AccountingLen)

C25_Witness ==
    /\ gen.state = "done"
    /\ inserted = {<<"1", "2", "0">>, <<"1", "2", "1">>, <<"1", "3", "0">>}
    /\ SubSeq(YieldedFree(<<1, 2>>), 1, 2) = << <<"1", "2", "2">>, <<"1", "2", "3">> >>
    /\ SubSeq(YieldedFree(<<1>>), 10, 11) = << <<"1", "0", "9">>, <<"1", "1", "0">> >>
    /\ SubSeq(YieldedFree(Root), 100, 101) = << <<"2", "9", "9">>, <<"3", "0", "0">> >>
    /\ Len(YieldedFree(Root)) = 800

----------------------------------------------------------------------------
(* Laziness of available() *)

\* the step of g = tree.available(...)
LazyCall == gen'.state = "created" /\ ngen' = ngen + 1

\* the first next(g) that does not raise
FirstPull == gen.state = "created" /\ gen'.state \in {"running", "done"}

\* an insertion between two next(g)
LateInsert == gen.state = "running" /\ gen' = gen /\ out' = out

\* identifier x was counted by an accounting pass
Counted(x) == tree[PathOf(x)].used = 1

\* C26: the call of available() changes nothing, the seed is inserted and
\* the accounting pass runs at the first pull; so an identifier inserted
\* between the call and the first pull is counted and is not yielded, and an
\* insertion after the first pull leaves used and covers as they are
C26_Lazy ==
    /\ []((gen.state = "created" /\ inserted = {} /\ seeded = {}) => tree = EmptyTree)
    /\ [](\A x \in Registered : Counted(x) => x \notin Yielded)
    /\ [][LazyCall => (tree' = tree /\ seeded' = seeded)]_vars
    /\ [][FirstPull =>
            /\ \A x \in inserted : tree'[PathOf(x)].used = 1
            /\ tree'[Root].used = Cardinality(inserted \cup seeded')
            /\ (inserted # {} => seeded' = seeded)]_vars
    /\ [][LateInsert => FieldsKept(tree, tree')]_vars

C26_Witness ==
    /\ ngen = 1 /\ gen.state = "running" /\ gen.seed = <<"1", "7">>
    /\ inserted = {<<"1", "2">>, <<"3", "0">>}
    /\ seeded = {}
    /\ tree[Root].used = 1
    /\ Counted(<<"1", "2">>) /\ ~Counted(<<"3", "0">>)
    /\ tree[<<3>>].covers = 0
    /\ Len(out) = 5

----------------------------------------------------------------------------
(* Insertions that raise *)

\* C27: an add_node on the root that raises has made no node and set no
\* terminal flag, so that every childless node below the root is terminal
C27_FailedUnchanged ==
    \A x \in BadIds :
        LET r == add_node(tree, Root, x) IN
        r.err # "none" =>
            /\ r.tree = tree
            /\ \A self \in DOMAIN r.tree \ DOMAIN tree : r.tree[self].terminal

----------------------------------------------------------------------------
(* src/test_helper/webexactivation/activator.py: the activator thread, its  *)
(* inbox monitor thread, the processing queue between them, the activation  *)
(* pool and the caller that waits in join().  The variable wa holds the     *)
(* state of all of them; each action is one step of one thread.             *)

\* activation mails that reach the inbox
MaxMails == 2
\* SystemErrors the IMAP client raises
MaxFails == 3

\* self._processing_queue = Queue(maxsize=10)
maxsize == 10

Uids == 1..MaxMails

\* recipient and subject of the mail with a uid: mails 1 and 2 are the same
\* activation mail for one user, mail 3 is for another user
Recipient(uid) == IF uid = 3 THEN "bob" ELSE "alice"
email_subject(uid) == "Activate your account"

\* mails that pass the checks of process_message: sent from webex.com with
\* an activation URL in the plain text body
IsActivation(uid) == uid <= 3

PairOf(uid) == <<Recipient(uid), email_subject(uid)>>

\* mutant of tracked: no subject was seen before
tracked_never(tracking, uid) == FALSE

\* subject in self._activation_tracking[email]
tracked(tracking, uid) == PairOf(uid) \in tracking

\* client.search('UNSEEN') followed by reverse(): uids in descending order
RECURSIVE unseen_messages(_)
unseen_messages(unseen) ==
    IF unseen = {} THEN <<>>
    ELSE LET m == CHOOSE x \in unseen : \A y \in unseen : y <= x IN
         <<m>> \o unseen_messages(unseen \ {m})

\* a mail reaches the inbox
Arrive(uid) ==
    /\ uid \notin wa.arrived
    /\ wa' = [wa EXCEPT !.arrived = @ \cup {uid}, !.unseen = @ \cup {uid}]
    /\ UNCHANGED <<tree, inserted, npop, lastErr, gen, ngen, seeded, out, prev, ru>>

\* MonitorInbox.run: the loop test, the stop check and the search
MonitorLoop ==
    /\ wa.mon.pc = "loop"
    /\ IF wa.mon.loops = 0
       THEN wa' = [wa EXCEPT !.mon.pc = "exited"]
       ELSE wa' = [wa EXCEPT
                !.mon.loops = IF wa.monStop THEN @ - 1 ELSE @,
                !.mon.todo = unseen_messages(wa.unseen),
                !.mon.pc = "schedule"]
    /\ UNCHANGED <<tree, inserted, npop, lastErr, gen, ngen, seeded, out, prev, ru>>

\* MonitorInbox.run: one round of the for loop over the unseen messages, or
\* the sleep after it; schedule_processing blocks while the queue is full
MonitorSchedule ==
    /\ wa.mon.pc = "schedule"
    /\ IF wa.mon.todo = <<>>
       THEN wa' = [wa EXCEPT !.mon.pc = "loop"]
       ELSE LET m == Head(wa.mon.todo) IN
            IF m \in wa.mon.scheduled
            THEN wa' = [wa EXCEPT !.mon.todo = Tail(@)]
            ELSE /\ Len(wa.queue) < maxsize
                 /\ wa' = [wa EXCEPT
                        !.mon.todo = Tail(@),
                        !.mon.scheduled = @ \cup {m},
                        !.queue = Append(@, <<"start", m>>)]
    /\ UNCHANGED <<tree, inserted, npop, lastErr, gen, ngen, seeded, out, prev, ru>>

\* WebexActivator.run: the test of the while loop
ActTest ==
    /\ wa.act.pc = "test"
    /\ wa' = [wa EXCEPT !.act.pc =
                IF wa.stop /\ wa.queue = <<>> THEN "closing" ELSE "get"]
    /\ UNCHANGED <<tree, inserted, npop, lastErr, gen, ngen, seeded, out, prev, ru>>

\* WebexActivator.run: self._processing_queue.get() blocks on an empty queue
ActGet ==
    /\ wa.act.pc = "get"
    /\ wa.queue # <<>>
    /\ wa' = [wa EXCEPT
            !.queue = Tail(@),
            !.act = [pc |-> "try", item |-> Head(wa.queue), i |-> 0]]
    /\ UNCHANGED <<tree, inserted, npop, lastErr, gen, ngen, seeded, out, prev, ru>>

\* WebexActivator.mark_as_read
mark_as_read(w, uid) == [w EXCEPT !.unseen = @ \ {uid}]

\* WebexActivator.process_message once the message has been fetched
process_message(w, uid) ==
    IF ~IsActivation(uid) THEN w
    ELSE IF tracked(w.tracking, uid) THEN mark_as_read(w, uid)
    ELSE LET t == [w EXCEPT !.tracking = @ \cup {PairOf(uid)}] IN
         IF w.poolShut
         THEN [t EXCEPT !.act.pc = "crashed"]
         ELSE [t EXCEPT !.submits = Append(@, uid),
                        !.running = @ \cup {uid}]

\* WebexActivator.run: one of the three tries to work on the item; a
\* SystemError of the IMAP client is raised before anything else is done
ActTry(fail) ==
    /\ wa.act.pc = "try"
    /\ IF fail
       THEN /\ wa.fails < MaxFails
            /\ wa' = [wa EXCEPT
                    !.fails = @ + 1,
                    !.act.pc = IF wa.act.i = 2 THEN "crashed" ELSE "try",
                    !.act.i = IF wa.act.i = 2 THEN 2 ELSE @ + 1]
       ELSE LET w == [wa EXCEPT !.act.pc = "test"]
                uid == wa.act.item[2] IN
            wa' = IF wa.act.item[1] = "start"
                  THEN process_message(w, uid)
                  ELSE mark_as_read(w, uid)
    /\ UNCHANGED <<tree, inserted, npop, lastErr, gen, ngen, seeded, out, prev, ru>>

\* WebexActivator.run after the loop: the pool is shut down and waited for
ActClose ==
    /\ wa.act.pc = "closing"
    /\ wa.running \cup wa.calling = {}
    /\ wa' = [wa EXCEPT !.poolShut = TRUE, !.act.pc = "exited"]
    /\ UNCHANGED <<tree, inserted, npop, lastErr, gen, ngen, seeded, out, prev, ru>>

\* activation_done: the activation has returned and schedule_done puts the
\* uid on the queue.  The callback runs in the pool thread that ran the
\* activation, or in the activator thread when the activation had already
\* returned as add_done_callback was called; the steps are the same
WorkerPut(uid) ==
    /\ uid \in wa.running
    /\ Len(wa.queue) < maxsize
    /\ wa' = [wa EXCEPT
            !.running = @ \ {uid},
            !.calling = @ \cup {uid},
            !.queue = Append(@, <<"done", uid>>)]
    /\ UNCHANGED <<tree, inserted, npop, lastErr, gen, ngen, seeded, out, prev, ru>>

\* WebexActivator.close
close(w) == [w EXCEPT !.stop = TRUE, !.monStop = TRUE]

\* activation_done in a pool thread: the activation callback is called and
\* the activator is closed when it returns True
WorkerCallback(uid, result) ==
    /\ uid \in wa.calling
    /\ wa' = IF result
             THEN close([wa EXCEPT !.calling = @ \ {uid}])
             ELSE [wa EXCEPT !.calling = @ \ {uid}]
    /\ UNCHANGED <<tree, inserted, npop, lastErr, gen, ngen, seeded, out, prev, ru>>

\* WebexActivator.join in the caller: the monitor is joined, then the pool
\* is shut down and waited for, then the activator thread is joined
Join ==
    /\ \/ /\ wa.join = "monitor"
          /\ wa.mon.pc = "exited"
          /\ wa' = [wa EXCEPT !.join = "pool", !.poolShut = TRUE]
       \/ /\ wa.join = "pool"
          /\ wa.running \cup wa.calling = {}
          /\ wa' = [wa EXCEPT !.join = "thread"]
       \/ /\ wa.join = "thread"
          /\ wa.act.pc \in {"exited", "crashed"}
          /\ wa' = [wa EXCEPT !.join = "returned"]
    /\ UNCHANGED <<tree, inserted, npop, lastErr, gen, ngen, seeded, out, prev, ru>>

NextActivator ==
    \/ \E uid \in Uids : Arrive(uid)
    \/ MonitorLoop
    \/ MonitorSchedule
    \/ ActTest
    \/ ActGet
    \/ \E fail \in BOOLEAN : ActTry(fail)
    \/ ActClose
    \/ \E uid \in Uids : WorkerPut(uid)
    \/ \E uid \in Uids, result \in BOOLEAN : WorkerCallback(uid, result)
    \/ Join

SpecActivator == Init /\ [][NextActivator]_vars

\* every thread that can take a step is scheduled in the end; no mail has
\* to arrive
SpecShutdown ==
    /\ Init /\ [][NextActivator]_vars
    /\ WF_vars(MonitorLoop) /\ WF_vars(MonitorSchedule)
    /\ WF_vars(ActTest) /\ WF_vars(ActGet)
    /\ WF_vars(\E fail \in BOOLEAN : ActTry(fail))
    /\ WF_vars(ActClose)
    /\ WF_vars(\E uid \in Uids : WorkerPut(uid))
    /\ WF_vars(\E uid \in Uids, result \in BOOLEAN : WorkerCallback(uid, result))
    /\ WF_vars(Join)

\* the activator works on a start command for a mail of a tracked pair
DuplicateStep ==
    /\ wa.act.pc = "try" /\ wa'.act.pc = "test"
    /\ wa.act.item[1] = "start"
    /\ PairOf(wa.act.item[2]) \in wa.tracking

\* C28: no two submissions to the pool are for the same recipient and
\* subject, and the step that works on a mail of a pair seen before submits
\* nothing and marks that mail as read
C28_ActsOnce ==
    /\ [](\A i, j \in DOMAIN wa.submits :
            i # j => PairOf(wa.submits[i]) # PairOf(wa.submits[j]))
    /\ [][DuplicateStep =>
            /\ wa'.submits = wa.submits
            /\ wa'.running = wa.running
            /\ wa'.unseen = wa.unseen \ {wa.act.item[2]}]_vars

C28_Witness ==
    /\ wa.submits = <<1>>
    /\ wa.tracking = {PairOf(1)}
    /\ wa.mon.scheduled = {1, 2}
    /\ wa.unseen = {1}
    /\ wa.queue = <<>> /\ wa.act.pc = "test"
    /\ wa.fails > 0

\* C29: once close() has been called, the caller's join() returns in the end
C29_ShutdownTerminates ==
    wa.stop ~> (wa.join = "returned")

----------------------------------------------------------------------------
(* src/test_helper/randomuser/api.py: RandomUserApi.set_uid, and its caller *)
(* RandomUserUtil.get_new_users of src/test_helper/randomuserutil.  A user  *)
(* is its name, a pair of strings; the variable ru holds the uids of the    *)
(* people that exist and the users and uids of the last set_uid call.       *)

\* users in one set_uid call
MaxUsers == 2
\* set_uid calls
MaxCalls == 3

\* names the random user API returns: first and last name
Names ==
    { <<<<"Z", "o", "e">>, <<"D", "o", "e">>>>,
      <<<<"Z", "o">>, <<"E", "d", "o", "e">>>>,
      <<<<"J", "o">>, <<"S", "m", "i", "t", "h", "s", "o", "n">>>> }

\* str.lower() of one character
lower(c) ==
    CASE c = "D" -> "d" [] c = "E" -> "e" [] c = "J" -> "j"
      [] c = "S" -> "s" [] c = "Z" -> "z" [] OTHER -> c

\* normalize of User.email_id: lower case, spaces removed
RECURSIVE normalize(_)
normalize(s) ==
    IF s = <<>> THEN <<>>
    ELSE IF Head(s) = " " THEN normalize(Tail(s))
    ELSE <<lower(Head(s))>> \o normalize(Tail(s))

\* s[:n]
Slice(s, n) == SubSeq(s, 1, IF n < Len(s) THEN n ELSE Len(s))

\* User.email_id
email_id(user) ==
    LET first == normalize(user[1])
        last == normalize(user[2])
        n == IF 8 - Len(last) > 1 THEN 8 - Len(last) ELSE 1
    IN Slice(first, n) \o Slice(last, 7)

\* uid_dict[uid]: a defaultdict(int)
Count(uid_dict, uid) == IF uid \in DOMAIN uid_dict THEN uid_dict[uid] ELSE 0

\* uid_dict[uid] += 1
Increment(uid_dict, uid) ==
    [k \in DOMAIN uid_dict \cup {uid} |->
        IF k = uid THEN Count(uid_dict, uid) + 1 ELSE uid_dict[k]]

\* set_uid: the loop over the first eight characters of the existing uids
RECURSIVE count_existing(_, _)
count_existing(existing_uids, uid_dict) ==
    IF existing_uids = <<>> THEN uid_dict
    ELSE count_existing(Tail(existing_uids),
                        Increment(uid_dict, Slice(Head(existing_uids), 8)))

\* set_uid: the loop over the users; the result is the uids in user order
RECURSIVE assign_uids(_, _)
assign_uids(users, uid_dict) ==
    IF users = <<>> THEN <<>>
    ELSE LET uid == email_id(Head(users))
             u == Count(uid_dict, uid)
         IN <<IF u # 0 THEN uid \o str(u) ELSE uid>>
                \o assign_uids(Tail(users), Increment(uid_dict, uid))

\* RandomUserApi.set_uid(users, existing_uids)
set_uid(users, existing_uids) ==
    assign_uids(users, count_existing(existing_uids, <<>>))

\* the user part of the gmail address of RandomUserUtil
GmailUser == <<"t", "e", "s", "t">>

\* RandomUserUtil.uid_to_email
uid_to_email(uid) == GmailUser \o <<"+">> \o uid \o <<"@gmail.com">>

\* RandomUserUtil.email_to_uid
email_to_uid(mail) ==
    LET n == Len(GmailUser) + 1 IN
    IF /\ Len(mail) > n + 1
       /\ SubSeq(mail, 1, n) = GmailUser \o <<"+">>
       /\ mail[Len(mail)] = "@gmail.com"
    THEN SubSeq(mail, n + 1, Len(mail) - 1)
    ELSE None

\* lists of at most MaxUsers users
RECURSIVE UserLists(_)
UserLists(n) ==
    IF n = 0 THEN {<<>>}
    ELSE UserLists(n - 1) \cup
         {Append(l, x) : l \in {l \in UserLists(n - 1) : Len(l) = n - 1}, x \in Names}

\* get_new_users: set_uid is called with the uids of the people that exist
SetUid(users) ==
    /\ ru.calls < MaxCalls
    /\ ru.users = <<>>
    /\ users # <<>>
    /\ ru' = [ru EXCEPT
            !.calls = @ + 1,
            !.users = users,
            !.was = ru.existing,
            !.uids = set_uid(users, ru.existing)]
    /\ UNCHANGED <<tree, inserted, npop, lastErr, gen, ngen, seeded, out, prev, wa>>

\* get_new_users and a later call of it: the users get the email address of
\* their uid, and the people made with these addresses are listed later
CreatePeople ==
    /\ ru.users # <<>>
    /\ ru' = [ru EXCEPT
            !.existing = @ \o [i \in DOMAIN ru.uids |->
                                email_to_uid(uid_to_email(ru.uids[i]))],
            !.users = <<>>,
            !.uids = <<>>]
    /\ UNCHANGED <<tree, inserted, npop, lastErr, gen, ngen, seeded, out, prev, wa>>

NextUid ==
    \/ \E users \in UserLists(MaxUsers) : SetUid(users)
    \/ CreatePeople

SpecUid == Init /\ [][NextUid]_vars

\* C30: after a set_uid call the uids of the users are pairwise different
\* and none of them is one of the existing uids given to the call
C30_UniqueUids ==
    ru.users # <<>> =>
        /\ \A i, j \in DOMAIN ru.uids : i # j => ru.uids[i] # ru.uids[j]
        /\ \A i \in DOMAIN ru.uids, k \in DOMAIN ru.was : ru.uids[i] # ru.was[k]

====
